---- MODULE Spec2Model ----
(***************************************************************************)
(* Lending Forecast Tool (src/app.py): a Streamlit script that is re-run    *)
(* from top to bottom on every interaction.  Each run reads the sidebar     *)
(* inputs, validates the loan-size range, builds the monthly forecast and   *)
(* the amortized cashflow series, handles the "Save Scenario" button,       *)
(* renders the saved-scenario comparison and handles "Clear All Scenarios". *)
(* Only st.session_state.saved_scenarios survives from one run to the next. *)
(*                                                                         *)
(* Python floats are modelled as exact rationals <<n, d>> (d > 0, lowest    *)
(* terms); floating-point rounding error is abstracted away.                *)
(***************************************************************************)
EXTENDS Integers, Sequences, FiniteSets, TLC

(***************************************************************************)
(* Exact rational arithmetic standing in for Python's float arithmetic.     *)
(***************************************************************************)
Abs(n) == IF n < 0 THEN -n ELSE n

RECURSIVE GCD(_, _)
GCD(a, b) == IF b = 0 THEN a ELSE GCD(b, a % b)

Norm(n, d) ==
    IF n = 0 THEN <<0, 1>>
    ELSE LET g == GCD(Abs(n), d) IN <<n \div g, d \div g>>

R(n) == <<n, 1>>

RNeg(a) == <<-a[1], a[2]>>

RAdd(a, b) ==
    LET g == GCD(a[2], b[2])
        l == (a[2] \div g) * b[2]
    IN  Norm(a[1] * (l \div a[2]) + b[1] * (l \div b[2]), l)

RSub(a, b) == RAdd(a, RNeg(b))

RMul(a, b) ==
    IF a[1] = 0 \/ b[1] = 0 THEN <<0, 1>>
    ELSE LET g1 == GCD(Abs(a[1]), b[2])
             g2 == GCD(Abs(b[1]), a[2])
         IN  <<(a[1] \div g1) * (b[1] \div g2), (a[2] \div g2) * (b[2] \div g1)>>

\* a / b for b # 0
RDiv(a, b) ==
    RMul(a, IF b[1] < 0 THEN <<-b[2], -b[1]>> ELSE <<b[2], b[1]>>)

RECURSIVE RPow(_, _)
RPow(a, k) == IF k = 0 THEN <<1, 1>> ELSE RMul(a, RPow(a, k - 1))

RLt(a, b) == RSub(a, b)[1] < 0
RLe(a, b) == RSub(a, b)[1] <= 0

\* A percentage widget value divided by 100.
Pct(p) == Norm(p, 100)

\* Variant: round(x), the nearest integer, in place of int(x).
PyIntNearest(x) == (2 * x[1] + x[2]) \div (2 * x[2])

\* Python int(x) on a float: the fractional part is discarded (toward zero).
PyInt(x) == IF x[1] >= 0 THEN x[1] \div x[2] ELSE -((-x[1]) \div x[2])

(***************************************************************************)
(* Text: a str is a sequence of one-character strings.                      *)
(***************************************************************************)
Whitespace == {" "}

RECURSIVE LStrip(_)
LStrip(s) == IF s # <<>> /\ Head(s) \in Whitespace THEN LStrip(Tail(s)) ELSE s

RECURSIVE RStrip(_)
RStrip(s) ==
    IF s # <<>> /\ s[Len(s)] \in Whitespace THEN RStrip(SubSeq(s, 1, Len(s) - 1)) ELSE s

\* Variant: the name is tested as typed.
StripNothing(s) == s

\* str.strip()
Strip(s) == RStrip(LStrip(s))

DigitChars == <<"0", "1", "2", "3", "4", "5", "6", "7", "8", "9">>

\* The decimal digits of n >= 0, most significant first.
RECURSIVE Digits(_)
Digits(n) ==
    IF n < 10 THEN <<DigitChars[n + 1]>>
    ELSE Append(Digits(n \div 10), DigitChars[(n % 10) + 1])

\* The ',' option of the format mini-language: a comma before every group of
\* three digits counted from the right.
RECURSIVE Grouped(_)
Grouped(ds) ==
    IF Len(ds) <= 3 THEN ds
    ELSE Grouped(SubSeq(ds, 1, Len(ds) - 3)) \o <<",">> \o SubSeq(ds, Len(ds) - 2, Len(ds))

\* Nearest integer to x >= 0, ties to the even neighbour ('f' presentation).
RoundHalfEven(x) ==
    LET f == x[1] \div x[2]
        twice == 2 * (x[1] - f * x[2])
    IN  IF twice < x[2] THEN f
        ELSE IF twice > x[2] THEN f + 1
        ELSE IF f % 2 = 0 THEN f ELSE f + 1

Sign(x) == IF x[1] < 0 THEN <<"-">> ELSE <<>>

\* f"{x:,.0f}"
FormatComma0(x) == Sign(x) \o Grouped(Digits(RoundHalfEven(<<Abs(x[1]), x[2]>>)))

\* f"{x:.2f}"
Format2(x) ==
    LET c == RoundHalfEven(RMul(<<Abs(x[1]), x[2]>>, R(100)))
    IN  Sign(x) \o Digits(c \div 100) \o <<".">>
          \o <<DigitChars[((c % 100) \div 10) + 1], DigitChars[(c % 10) + 1]>>

\* The pound sign that prefixes currency cells.
Pound == <<"GBP">>

(***************************************************************************)
(* Derived unit economics (computed once per run from the sidebar inputs).  *)
(***************************************************************************)
\* Variant: equal sizes pass the check.
RangeInvalidStrict(min_loan_size, max_loan_size) == min_loan_size > max_loan_size

RangeInvalid(min_loan_size, max_loan_size) == min_loan_size >= max_loan_size

AvgLoanSize(p) == RDiv(R(p.min_loan_size + p.max_loan_size), R(2))

LoanSizeFactor(p) == RDiv(AvgLoanSize(p), R(300))

LoanTermFactor(p) == RDiv(R(p.loan_term), R(3))

RevenuePerLoan(p) ==
    RMul(RMul(R(p.revenue_per_loan_base), LoanSizeFactor(p)), LoanTermFactor(p))

BadDebtPerLoan(p) ==
    RMul(RMul(AvgLoanSize(p), p.bad_debt_rate), RSub(R(1), p.recovery_rate))

NetContributionPerLoan(p) ==
    RSub(RSub(RevenuePerLoan(p), R(p.cost_per_funded)), BadDebtPerLoan(p))

(***************************************************************************)
(* calculate_monthly_metrics                                                *)
(***************************************************************************)
MonthlyLending(mth, initial_lending, loan_growth_rate) ==
    RMul(R(initial_lending), RPow(RAdd(R(1), loan_growth_rate), mth - 1))

LoansThisMonth(monthly_lending, avg_loan_size) ==
    PyInt(RDiv(monthly_lending, avg_loan_size))

\* Variant: the fixed overhead is left out.
TotalExpenditureNoFixed(cost, provision, variable_cost, fixed_costs) ==
    RAdd(RAdd(cost, provision), variable_cost)

TotalExpenditure(cost, provision, variable_cost, fixed_costs) ==
    RAdd(RAdd(RAdd(cost, provision), variable_cost), R(fixed_costs))

\* The function body, one source statement group per operator; each value is
\* computed once and handed on, as the local variables of the function are.
MetricsRecord(monthly_lending, loans_this_month, revenue, cost, provision, variable_cost, net_contribution, total_expenditure) ==
    [monthly_lending |-> monthly_lending,
     loans_this_month |-> loans_this_month,
     revenue |-> revenue,
     cost |-> cost,
     provision |-> provision,
     variable_cost |-> variable_cost,
     net_contribution |-> net_contribution,
     total_expenditure |-> total_expenditure,
     net_cashflow |-> RSub(revenue, total_expenditure)]

MetricsFromAmounts(monthly_lending, loans_this_month, revenue, cost, provision, variable_cost, fixed_costs) ==
    MetricsRecord(monthly_lending, loans_this_month, revenue, cost, provision, variable_cost,
                  RSub(RSub(RSub(revenue, cost), provision), variable_cost),
                  TotalExpenditure(cost, provision, variable_cost, fixed_costs))

MetricsFromRevenue(monthly_lending, loans_this_month, revenue, cost_per_funded, bad_debt_per_loan, fixed_costs, variable_cost_pct) ==
    MetricsFromAmounts(monthly_lending, loans_this_month, revenue,
                       R(loans_this_month * cost_per_funded),
                       RMul(R(loans_this_month), bad_debt_per_loan),
                       RMul(revenue, variable_cost_pct),
                       fixed_costs)

MetricsFromLoans(monthly_lending, loans_this_month, revenue_per_loan, cost_per_funded, bad_debt_per_loan, fixed_costs, variable_cost_pct) ==
    MetricsFromRevenue(monthly_lending, loans_this_month,
                       RMul(R(loans_this_month), revenue_per_loan),
                       cost_per_funded, bad_debt_per_loan, fixed_costs, variable_cost_pct)

MetricsFromLending(monthly_lending, avg_loan_size, revenue_per_loan, cost_per_funded, bad_debt_per_loan, fixed_costs, variable_cost_pct) ==
    MetricsFromLoans(monthly_lending, LoansThisMonth(monthly_lending, avg_loan_size),
                     revenue_per_loan, cost_per_funded, bad_debt_per_loan, fixed_costs,
                     variable_cost_pct)

calculate_monthly_metrics(mth, initial_lending, loan_growth_rate, avg_loan_size, revenue_per_loan, cost_per_funded, bad_debt_per_loan, fixed_costs, variable_cost_pct) ==
    MetricsFromLending(MonthlyLending(mth, initial_lending, loan_growth_rate),
                       avg_loan_size, revenue_per_loan, cost_per_funded, bad_debt_per_loan,
                       fixed_costs, variable_cost_pct)

MetricsOf(p, m) ==
    calculate_monthly_metrics(m, p.initial_lending, p.loan_growth_rate, AvgLoanSize(p),
                              RevenuePerLoan(p), p.cost_per_funded, BadDebtPerLoan(p),
                              p.fixed_costs, p.variable_cost_pct)

\* One row of `data` (a row of the forecast DataFrame).
DataRow(m, mtr, fixed_costs) ==
    [month |-> m,
     lending_volume |-> mtr.monthly_lending,
     loans_funded |-> mtr.loans_this_month,
     revenue |-> mtr.revenue,
     cost |-> mtr.cost,
     provision |-> mtr.provision,
     variable_costs |-> mtr.variable_cost,
     fixed_costs |-> R(fixed_costs),
     net_contribution |-> mtr.net_contribution,
     net_cashflow |-> mtr.net_cashflow]

(***************************************************************************)
(* Repayment cashflow: straight-line amortization over the loan term.       *)
(***************************************************************************)
\* Variant: the arrays are not extended by the loan term.
ForecastHorizonShort(months, loan_term) == months

ForecastHorizon(months, loan_term) == months + loan_term

Zeros(n) == [k \in 1..n |-> R(0)]

\* Variant: the index is taken 1-based.
RepaymentMonthOneBased(mth, k) == mth + k

\* repayment_month: the array index (0-based) written for offset k of month mth.
RepaymentMonth(mth, k) == mth - 1 + k

\* The guard of the allocation.
InBounds(rm, series) == rm < Len(series)

\* series[repayment_month] += amount, under the guard (rm: repayment_month).
Allocate(series, rm, amount) ==
    IF InBounds(rm, series)
    THEN [series EXCEPT ![rm + 1] = RAdd(@, amount)]
    ELSE series

MonthlyRepayment(mtr, loan_term) == RDiv(mtr.revenue, R(loan_term))

MonthlyNetExpense(mtr, loan_term) == RDiv(mtr.total_expenditure, R(loan_term))

\* for i in range(from_i, loan_term): allocate `amount`
RECURSIVE Spread(_, _, _, _, _)
Spread(series, mth, from_i, loan_term, amount) ==
    IF from_i >= loan_term THEN series
    ELSE Spread(Allocate(series, RepaymentMonth(mth, from_i), amount),
                mth, from_i + 1, loan_term, amount)

\* The body of the forecast loop for month m with its metrics mtr: one more
\* row, and the month's revenue and expenditure spread over the loan term.
MonthBody(p, m, mtr, acc) ==
    [data |-> Append(acc.data, DataRow(m, mtr, p.fixed_costs)),
     cashflow |->
         IF p.loan_term > 0
         THEN Spread(acc.cashflow, m, 0, p.loan_term,
                     MonthlyRepayment(mtr, p.loan_term))
         ELSE acc.cashflow,
     net_cashflow |->
         IF p.loan_term > 0
         THEN Spread(acc.net_cashflow, m, 0, p.loan_term,
                     RSub(MonthlyRepayment(mtr, p.loan_term),
                          MonthlyNetExpense(mtr, p.loan_term)))
         ELSE acc.net_cashflow]

\* The whole `for month in range(1, months + 1)` loop, from month from_m on.
RECURSIVE ForecastLoop(_, _, _)
ForecastLoop(p, from_m, acc) ==
    IF from_m > p.months THEN acc
    ELSE ForecastLoop(p, from_m + 1, MonthBody(p, from_m, MetricsOf(p, from_m), acc))

Forecast(p) ==
    ForecastLoop(p, 1,
        [data |-> <<>>,
         cashflow |-> Zeros(ForecastHorizon(p.months, p.loan_term)),
         net_cashflow |-> Zeros(ForecastHorizon(p.months, p.loan_term))])

(***************************************************************************)
(* Totals and headline metrics.                                             *)
(***************************************************************************)
RECURSIVE SumInt(_, _)
SumInt(rows, k) == IF k = 0 THEN 0 ELSE SumInt(rows, k - 1) + rows[k].loans_funded

RECURSIVE SumCol(_, _, _)
SumCol(rows, col, k) ==
    IF k = 0 THEN R(0) ELSE RAdd(SumCol(rows, col, k - 1), rows[k][col])

\* Variant: the sums stop one row short.
TotalRowShort(rows) ==
    [month |-> "TOTAL",
     lending_volume |-> SumCol(rows, "lending_volume", Len(rows) - 1),
     loans_funded |-> SumInt(rows, Len(rows) - 1),
     revenue |-> SumCol(rows, "revenue", Len(rows) - 1),
     cost |-> SumCol(rows, "cost", Len(rows) - 1),
     provision |-> SumCol(rows, "provision", Len(rows) - 1),
     variable_costs |-> SumCol(rows, "variable_costs", Len(rows) - 1),
     fixed_costs |-> SumCol(rows, "fixed_costs", Len(rows) - 1),
     net_contribution |-> SumCol(rows, "net_contribution", Len(rows) - 1),
     net_cashflow |-> SumCol(rows, "net_cashflow", Len(rows) - 1)]

TotalRow(rows) ==
    [month |-> "TOTAL",
     lending_volume |-> SumCol(rows, "lending_volume", Len(rows)),
     loans_funded |-> SumInt(rows, Len(rows)),
     revenue |-> SumCol(rows, "revenue", Len(rows)),
     cost |-> SumCol(rows, "cost", Len(rows)),
     provision |-> SumCol(rows, "provision", Len(rows)),
     variable_costs |-> SumCol(rows, "variable_costs", Len(rows)),
     fixed_costs |-> SumCol(rows, "fixed_costs", Len(rows)),
     net_contribution |-> SumCol(rows, "net_contribution", Len(rows)),
     net_cashflow |-> SumCol(rows, "net_cashflow", Len(rows))]

\* avg_growth = ((last / first) ** (1 / months) - 1) * 100 if months > 1 else 0.
\* The root is kept symbolic: tag "root" stands for (base ** (1 / root) - 1) * 100,
\* tag "nan" for the 0.0 / 0.0 of an all-zero lending column.
GrowthExponentDenominator(months) == months

AvgGrowth(rows, months) ==
    IF months > 1
    THEN LET first == rows[1].lending_volume
             last == rows[Len(rows)].lending_volume
         IN  IF first[1] = 0
             THEN [tag |-> "nan", base |-> R(0), root |-> GrowthExponentDenominator(months)]
             ELSE [tag |-> "root", base |-> RDiv(last, first),
                   root |-> GrowthExponentDenominator(months)]
    ELSE [tag |-> "const", base |-> R(0), root |-> 1]

(***************************************************************************)
(* Scenario store: st.session_state.saved_scenarios, a dict keyed by name.  *)
(***************************************************************************)
EmptyStore == <<>>

Snapshot(p, rows, total, cashflow, net_cashflow) ==
    [df |-> rows,
     total |-> total,
     cashflow |-> cashflow,
     net_cashflow |-> net_cashflow,
     parameters |-> [initial_lending |-> p.initial_lending,
                     loan_growth_rate |-> p.loan_growth_rate,
                     avg_loan_size |-> AvgLoanSize(p),
                     loan_term |-> p.loan_term,
                     revenue_per_loan |-> RevenuePerLoan(p),
                     bad_debt_rate |-> p.bad_debt_rate,
                     months |-> p.months]]

\* `if scenario_name.strip():`
NameAccepted(name) == Strip(name) # <<>>

\* Variant: the store is replaced instead of updated.
StoreOnly(store, name, snap) == (name :> snap)

\* saved_scenarios[scenario_name] = {...}
StoreUnder(store, name, snap) == (name :> snap) @@ store

SavedMsg == "Saved"
EmptyNameMsg == "Please enter a scenario name"
RangeMsg == "Minimum loan size must be less than maximum loan size"
ClearedMsg == "All scenarios cleared"

\* Choices a multiselect over `options` can return: distinct options, in the
\* order they were picked.
Selections(options) ==
    {s \in UNION {[1..n -> options] : n \in 0..Cardinality(options)} :
        \A a, b \in DOMAIN s : a # b => s[a] # s[b]}

ComparisonRow(name, scenario) ==
    LET total_revenue == scenario.total.revenue
        total_loans == scenario.total.loans_funded
        total_contribution == scenario.total.net_contribution
    IN  [Scenario |-> name,
         Total_Revenue |-> Pound \o FormatComma0(total_revenue),
         Total_Loans |-> FormatComma0(R(total_loans)),
         Total_Net_Contribution |-> Pound \o FormatComma0(total_contribution),
         Avg_Revenue_per_Loan |->
             IF total_loans > 0
             THEN Pound \o Format2(RDiv(total_revenue, R(total_loans)))
             ELSE Pound \o <<"0", ".", "0", "0">>]

\* Variant: one selected name is enough.
EnoughSelectedOne(names) == Len(names) >= 1

\* `if len(compare_names) >= 2:`
EnoughSelected(names) == Len(names) >= 2

\* comparison_data as handed to st.dataframe; nothing is built otherwise.
Comparison(store, names) ==
    IF EnoughSelected(names)
    THEN [k \in 1..Len(names) |-> ComparisonRow(names[k], store[names[k]])]
    ELSE <<>>

(***************************************************************************)
(* State.                                                                   *)
(***************************************************************************)
VARIABLES
    saved_scenarios,    \* st.session_state.saved_scenarios
    scenario_name,      \* sidebar text input
    params,             \* the other sidebar inputs of the current run
    pressed,            \* the button whose click caused the current run
    pc,                 \* position of the script
    messages,           \* st.error / st.sidebar.error / success texts of the run
    data,               \* rows of the forecast table
    total_row,          \* <<>> until built, then <<the TOTAL row>>
    cashflow_data,
    net_cashflow_data,
    avg_growth,         \* <<>> until computed
    compare_names,      \* the multiselect's value
    comparison_data,    \* rows of the rendered comparison table
    clear_shown,        \* whether the run reached the "Clear All Scenarios" button
    month,              \* loop variable of the forecast loop
    i,                  \* loop variable of the allocation loop
    metrics,            \* <<>> or <<metrics of the current month>>
    repayment_month,    \* last array index computed
    skipped             \* allocations the bounds guard has skipped

vars == <<saved_scenarios, scenario_name, params, pressed, pc, messages, data,
          total_row, cashflow_data, net_cashflow_data, avg_growth, compare_names,
          comparison_data, clear_shown, month, i, metrics, repayment_month, skipped>>

sessionVars == <<saved_scenarios, scenario_name, pressed, compare_names,
                 comparison_data, clear_shown>>

loopVars == <<month, i, metrics, repayment_month, skipped>>

(***************************************************************************)
(* Inputs.                                                                  *)
(***************************************************************************)
\* Longest forecast horizon explored (the slider allows 1..60).
MaxMonths == 3

\* Loan terms explored, out of options=[1, 2, 3, 4, 5, 6, 12].
LoanTerms == {1, 2, 3, 6, 12}

Params(il, g, mn, mx, t, m, fc) ==
    [initial_lending |-> il,
     loan_growth_rate |-> Pct(g),
     min_loan_size |-> mn,
     max_loan_size |-> mx,
     loan_term |-> t,
     cost_per_funded |-> 40,
     bad_debt_rate |-> Pct(20),
     recovery_rate |-> Pct(0),
     revenue_per_loan_base |-> 150,
     months |-> m,
     fixed_costs |-> fc,
     variable_cost_pct |-> Pct(5)]

\* The widgets' default values, the horizon capped to the explored range.
DefaultParams == Params(2000000, 0, 300, 1500, 3, IF 12 <= MaxMonths THEN 12 ELSE MaxMonths, 25000)

\* Parameter sets of the engine-level specification.
EngineParams ==
    {Params(il, g, mn, mx, t, m, fc) :
        il \in {-100000, 0, 1000000, 2000000}, g \in {-50, 0, 50},
        mn \in {300, 1500}, mx \in {1000, 1500},
        t \in LoanTerms, m \in 1..MaxMonths, fc \in {0, 25000}}

\* Parameter sets of the session-level specification; the last has equal loan
\* sizes, as handed to the validation check.
SessionParams ==
    {Params(2000000, 50, 300, 1500, 3, MaxMonths, 25000),
     Params(-100000, 50, 300, 1500, 3, MaxMonths, 25000),
     Params(2000000, 50, 1500, 1500, 3, MaxMonths, 25000)}

Names == {<<>>, <<" ">>, <<"A">>, <<" ", "B">>}

Buttons == {"none", "save", "clear"}

(***************************************************************************)
(* Session-level specification: one action per run of the script.           *)
(***************************************************************************)
Init ==
    /\ saved_scenarios = EmptyStore
    /\ scenario_name = <<>>
    /\ params = DefaultParams
    /\ pressed = "none"
    /\ pc = "start"
    /\ messages = {}
    /\ data = <<>>
    /\ total_row = <<>>
    /\ cashflow_data = <<>>
    /\ net_cashflow_data = <<>>
    /\ avg_growth = <<>>
    /\ compare_names = <<>>
    /\ comparison_data = <<>>
    /\ clear_shown = FALSE
    /\ month = 0
    /\ i = 0
    /\ metrics = <<>>
    /\ repayment_month = 0
    /\ skipped = 0

\* The save block: the store after it.
SaveScenario(store, button, name, snap) ==
    IF button = "save" /\ NameAccepted(name) THEN StoreUnder(store, name, snap) ELSE store

SaveMessages(button, name) ==
    IF button = "save"
    THEN IF NameAccepted(name) THEN {SavedMsg} ELSE {EmptyNameMsg}
    ELSE {}

\* The clear block, reached only inside `if st.session_state.saved_scenarios:`.
ClearScenarios(store, button) == IF button = "clear" THEN EmptyStore ELSE store

\* A run halted by the validation check: st.error, st.stop.
RunStopped ==
    /\ pc' = "stopped"
    /\ messages' = {RangeMsg}
    /\ data' = <<>>
    /\ total_row' = <<>>
    /\ cashflow_data' = <<>>
    /\ net_cashflow_data' = <<>>
    /\ avg_growth' = <<>>
    /\ compare_names' = <<>>
    /\ comparison_data' = <<>>
    /\ clear_shown' = FALSE
    /\ UNCHANGED saved_scenarios

\* Everything a run that passes validation computes from its inputs.
RunOutputsOf(p, fc, total) ==
    [data |-> fc.data,
     total |-> total,
     cashflow |-> fc.cashflow,
     net_cashflow |-> fc.net_cashflow,
     avg_growth |-> AvgGrowth(fc.data, p.months),
     snapshot |-> Snapshot(p, fc.data, total, fc.cashflow, fc.net_cashflow)]

WithForecast(p, fc) == RunOutputsOf(p, fc, TotalRow(fc.data))

RunOutputs(p) == WithForecast(p, Forecast(p))

\* The outputs of the session-level parameter sets, computed once; nothing is
\* computed for a parameter set the validation check stops.
SessionOutputs ==
    [p \in SessionParams |->
        IF RangeInvalid(p.min_loan_size, p.max_loan_size) THEN <<>> ELSE <<RunOutputs(p)>>]

RunToEnd(name, p, button) ==
    LET out == SessionOutputs[p][1]
        afterSave == SaveScenario(saved_scenarios, button, name, out.snapshot)
    IN  /\ pc' = "done"
        /\ data' = out.data
        /\ total_row' = <<out.total>>
        /\ cashflow_data' = out.cashflow
        /\ net_cashflow_data' = out.net_cashflow
        /\ avg_growth' = <<out.avg_growth>>
        /\ IF DOMAIN afterSave # {}
           THEN /\ \E names \in Selections(DOMAIN afterSave) :
                      /\ compare_names' = names
                      /\ comparison_data' = Comparison(afterSave, names)
                /\ clear_shown' = TRUE
                /\ saved_scenarios' = ClearScenarios(afterSave, button)
                /\ messages' = SaveMessages(button, name)
                                 \cup (IF button = "clear" THEN {ClearedMsg} ELSE {})
           ELSE /\ compare_names' = <<>>
                /\ comparison_data' = <<>>
                /\ clear_shown' = FALSE
                /\ saved_scenarios' = afterSave
                /\ messages' = SaveMessages(button, name)

\* One run of the script, caused by a widget change and/or a button click.
Run ==
    \E name \in Names, p \in SessionParams, button \in Buttons :
        /\ button = "save" => pc = "done"
        /\ button = "clear" => clear_shown
        /\ scenario_name' = name
        /\ params' = p
        /\ pressed' = button
        /\ IF RangeInvalid(p.min_loan_size, p.max_loan_size)
           THEN RunStopped
           ELSE RunToEnd(name, p, button)
        /\ UNCHANGED loopVars

Next == Run

Spec == Init /\ [][Next]_vars

(***************************************************************************)
(* Engine-level specification: one run of the script from the validation    *)
(* check to the totals, one action per statement group and loop iteration.  *)
(***************************************************************************)
EngineInit ==
    /\ params \in EngineParams
    /\ pc = "validate"
    /\ saved_scenarios = EmptyStore
    /\ scenario_name = <<>>
    /\ pressed = "none"
    /\ messages = {}
    /\ data = <<>>
    /\ total_row = <<>>
    /\ cashflow_data = <<>>
    /\ net_cashflow_data = <<>>
    /\ avg_growth = <<>>
    /\ compare_names = <<>>
    /\ comparison_data = <<>>
    /\ clear_shown = FALSE
    /\ month = 0
    /\ i = 0
    /\ metrics = <<>>
    /\ repayment_month = 0
    /\ skipped = 0

\* The validation check, then the allocation of the extended arrays.
Validate ==
    /\ pc = "validate"
    /\ IF RangeInvalid(params.min_loan_size, params.max_loan_size)
       THEN /\ pc' = "stopped"
            /\ messages' = {RangeMsg}
            /\ UNCHANGED <<data, cashflow_data, net_cashflow_data, month>>
       ELSE /\ pc' = "month"
            /\ month' = 1
            /\ data' = <<>>
            /\ cashflow_data' = Zeros(ForecastHorizon(params.months, params.loan_term))
            /\ net_cashflow_data' = Zeros(ForecastHorizon(params.months, params.loan_term))
            /\ UNCHANGED messages
    /\ UNCHANGED <<sessionVars, params, total_row, avg_growth, i, metrics,
                   repayment_month, skipped>>

\* Head of the forecast loop: the month's metrics and its table row.
MonthStep ==
    /\ pc = "month"
    /\ month <= params.months
    /\ metrics' = <<MetricsOf(params, month)>>
    /\ data' = Append(data, DataRow(month, metrics'[1], params.fixed_costs))
    /\ IF params.loan_term > 0
       THEN pc' = "alloc" /\ i' = 0 /\ UNCHANGED month
       ELSE pc' = "month" /\ month' = month + 1 /\ UNCHANGED i
    /\ UNCHANGED <<sessionVars, params, messages, total_row, cashflow_data,
                   net_cashflow_data, avg_growth, repayment_month, skipped>>

\* One iteration of `for i in range(loan_term)`.
AllocStep ==
    /\ pc = "alloc"
    /\ i < params.loan_term
    /\ repayment_month' = RepaymentMonth(month, i)
    /\ cashflow_data' =
           Allocate(cashflow_data, repayment_month',
                    MonthlyRepayment(metrics[1], params.loan_term))
    /\ net_cashflow_data' =
           Allocate(net_cashflow_data, repayment_month',
                    RSub(MonthlyRepayment(metrics[1], params.loan_term),
                         MonthlyNetExpense(metrics[1], params.loan_term)))
    /\ skipped' = IF InBounds(repayment_month', cashflow_data) THEN skipped ELSE skipped + 1
    /\ i' = i + 1
    /\ IF i + 1 >= params.loan_term
       THEN pc' = "month" /\ month' = month + 1
       ELSE UNCHANGED <<pc, month>>
    /\ UNCHANGED <<sessionVars, params, messages, data, total_row, avg_growth, metrics>>

\* After the loop: the TOTAL row and the headline growth metric.
Totals ==
    /\ pc = "month"
    /\ month > params.months
    /\ total_row' = <<TotalRow(data)>>
    /\ avg_growth' = <<AvgGrowth(data, params.months)>>
    /\ pc' = "done"
    /\ UNCHANGED <<sessionVars, params, messages, data, cashflow_data,
                   net_cashflow_data, loopVars>>

EngineNext == Validate \/ MonthStep \/ AllocStep \/ Totals

EngineSpec == EngineInit /\ [][EngineNext]_vars

(***************************************************************************)
(* Properties of the scenario store (specification Spec).                   *)
(***************************************************************************)
\* A name with no character other than whitespace (the empty name included).
IsBlank(name) == \A k \in DOMAIN name : name[k] \in Whitespace

\* The store as the comparison block of the run just taken saw it: the clear
\* block runs after the comparison, the save block before it.
StoreAtCompare == IF pressed' = "clear" THEN saved_scenarios ELSE saved_scenarios'

\* snap holds exactly what the run just taken computed and was given.
CapturesThisRun(snap) ==
    /\ snap.df = data'
    /\ snap.total = total_row'[1]
    /\ snap.cashflow = cashflow_data'
    /\ snap.net_cashflow = net_cashflow_data'
    /\ snap.parameters.initial_lending = params'.initial_lending
    /\ snap.parameters.loan_growth_rate = params'.loan_growth_rate
    /\ snap.parameters.loan_term = params'.loan_term
    /\ snap.parameters.bad_debt_rate = params'.bad_debt_rate
    /\ snap.parameters.months = params'.months

SaveTakesEffect == pressed' = "save" /\ pc' = "done" /\ ~IsBlank(scenario_name')

ClearTakesEffect == pressed' = "clear" /\ pc' = "done"

C1_Step ==
    /\ SaveTakesEffect =>
          /\ DOMAIN saved_scenarios' = DOMAIN saved_scenarios \cup {scenario_name'}
          /\ CapturesThisRun(saved_scenarios'[scenario_name'])
          /\ \A n \in DOMAIN saved_scenarios \ {scenario_name'} :
                saved_scenarios'[n] = saved_scenarios[n]
          /\ scenario_name' \in DOMAIN saved_scenarios =>
                Cardinality(DOMAIN saved_scenarios') = Cardinality(DOMAIN saved_scenarios)
    /\ ClearTakesEffect => DOMAIN saved_scenarios' = {}
    /\ ~SaveTakesEffect /\ ~ClearTakesEffect =>
          /\ DOMAIN saved_scenarios' = DOMAIN saved_scenarios
          /\ \A n \in DOMAIN saved_scenarios : saved_scenarios'[n] = saved_scenarios[n]

\* C1: every run changes the store only as an effective save or clear does: a save
\* under a non-blank name maps that name to the snapshot of the run and leaves every
\* other entry alone (an existing name is overwritten, the number of entries stays),
\* a clear empties the store, and any other run, whatever its parameters, leaves
\* every stored snapshot as it was.  Hence the store always holds exactly the
\* non-blank names saved since the last clear, each with its latest snapshot.
C1_StoreFollowsSaveAndClear == [][C1_Step]_vars

\* Two scenarios are stored and a run without save shows a forecast that differs
\* from a stored one.
C1_Witness ==
    /\ Cardinality(DOMAIN saved_scenarios) = 2
    /\ pressed = "none"
    /\ pc = "done"
    /\ \E n \in DOMAIN saved_scenarios :
          /\ saved_scenarios[n].parameters.initial_lending # params.initial_lending
          /\ saved_scenarios[n].df # data

\* C2: a save under an empty or whitespace-only name reports "Please enter a
\* scenario name", reports no success, and leaves the store as it was.
C2_BlankNameRejected ==
    [][(pressed' = "save" /\ pc' = "done" /\ IsBlank(scenario_name')) =>
          /\ EmptyNameMsg \in messages'
          /\ SavedMsg \notin messages'
          /\ DOMAIN saved_scenarios' = DOMAIN saved_scenarios
          /\ \A n \in DOMAIN saved_scenarios : saved_scenarios'[n] = saved_scenarios[n]]_vars

\* A whitespace-only name was refused while the store held an entry.
C2_Witness ==
    /\ pressed = "save"
    /\ scenario_name = <<" ">>
    /\ EmptyNameMsg \in messages
    /\ DOMAIN saved_scenarios # {}

\* Messages the script can show that are not about the comparison.
OtherMessages == {SavedMsg, EmptyNameMsg, RangeMsg, ClearedMsg}

\* C3 as stated: a comparison over fewer than 2 names fails with an error, i.e.
\* the run reports a failure of the comparison.
C3_FewNamesReportError ==
    (pc = "done" /\ Len(compare_names) < 2) => messages \ OtherMessages # {}

C3_Step ==
    pc' = "done" =>
        /\ \A k \in DOMAIN compare_names' : compare_names'[k] \in DOMAIN StoreAtCompare
        /\ Len(compare_names') < 2 =>
              (comparison_data' = <<>> /\ messages' \subseteq OtherMessages)
        /\ Len(comparison_data') \in {0, Len(compare_names')}

\* C3 (amended): a comparison over fewer than 2 names produces no comparison table
\* and reports nothing; every selected name is a key of the store, so an unknown
\* name is never given; and a table, when produced, is never partial.
C3_FewNamesNoTable == [][C3_Step]_vars

\* One of two stored scenarios was selected and no table was produced.
C3_Witness ==
    /\ pc = "done"
    /\ Len(compare_names) = 1
    /\ comparison_data = <<>>
    /\ Cardinality(DOMAIN saved_scenarios) = 2

\* C4: a run whose maximum loan size does not exceed the minimum is stopped with
\* the range error before anything is computed: no table row, no total, no
\* cashflow series, no comparison, and the store is as it was even when the run
\* was caused by the save button.
C4_InvalidRangeStops ==
    [][params'.max_loan_size <= params'.min_loan_size =>
          /\ pc' = "stopped"
          /\ RangeMsg \in messages'
          /\ data' = <<>>
          /\ total_row' = <<>>
          /\ cashflow_data' = <<>>
          /\ net_cashflow_data' = <<>>
          /\ comparison_data' = <<>>
          /\ DOMAIN saved_scenarios' = DOMAIN saved_scenarios
          /\ \A n \in DOMAIN saved_scenarios : saved_scenarios'[n] = saved_scenarios[n]]_vars

\* A save under a fresh, non-blank name was requested in a run that was stopped.
C4_Witness ==
    /\ pc = "stopped"
    /\ pressed = "save"
    /\ ~IsBlank(scenario_name)
    /\ scenario_name \notin DOMAIN saved_scenarios
    /\ params.max_loan_size <= params.min_loan_size

\* Reading a formatted count back: sign, digits, thousands separators.
DigitValue(c) == CHOOSE d \in 0..9 : DigitChars[d + 1] = c

RECURSIVE ParseDigits(_, _)
ParseDigits(s, acc) ==
    IF s = <<>> THEN acc
    ELSE IF Head(s) = "," THEN ParseDigits(Tail(s), acc)
    ELSE ParseDigits(Tail(s), 10 * acc + DigitValue(Head(s)))

ParseCount(s) ==
    IF s # <<>> /\ Head(s) = "-" THEN -ParseDigits(Tail(s), 0) ELSE ParseDigits(s, 0)

RECURSIVE LoansOfRows(_)
LoansOfRows(rows) ==
    IF rows = <<>> THEN 0 ELSE Head(rows).loans_funded + LoansOfRows(Tail(rows))

C9_Step ==
    (pc' = "done" /\ Len(compare_names') >= 2) =>
        /\ Len(comparison_data') = Len(compare_names')
        /\ \A k \in DOMAIN compare_names' :
              /\ comparison_data'[k].Scenario = compare_names'[k]
              /\ ParseCount(comparison_data'[k].Total_Loans)
                     = LoansOfRows(StoreAtCompare[compare_names'[k]].df)

\* C9: a comparison over 2 or more stored names has exactly one row per name, in
\* order, and the row's total-loans cell reads as the sum of the loans funded per
\* month in the snapshot stored under that name, a snapshot saved earlier in the
\* same run included.
C9_OneRowPerNameWithLoanTotal == [][C9_Step]_vars

\* The scenario saved by this run is compared with another one, and its total is
\* shown with a thousands separator.
C9_Witness ==
    /\ pc = "done"
    /\ pressed = "save"
    /\ Len(comparison_data) = 2
    /\ compare_names[1] = scenario_name
    /\ \E k \in DOMAIN comparison_data[1].Total_Loans :
          comparison_data[1].Total_Loans[k] = ","

(***************************************************************************)
(* Properties of the forecast engine (specification EngineSpec).            *)
(***************************************************************************)
RECURSIVE SeriesSum(_)
SeriesSum(series) ==
    IF series = <<>> THEN R(0) ELSE RAdd(Head(series), SeriesSum(Tail(series)))

RECURSIVE RevenueSum(_)
RevenueSum(rows) ==
    IF rows = <<>> THEN R(0) ELSE RAdd(Head(rows).revenue, RevenueSum(Tail(rows)))

\* C5: once the months so far have been spread (between two months of the loop
\* and at the end of the run), the entries of the amortized cashflow series, all
\* months + loan_term of them, add up to the revenue of the table rows built so
\* far; at the end that is the revenue of months 1..horizon.
C5_AmortizationConservesRevenue ==
    pc \in {"month", "done"} =>
        /\ Len(cashflow_data) = params.months + params.loan_term
        /\ SeriesSum(cashflow_data) = RevenueSum(data)

\* A finished run over several months and a term above 1 whose per-period
\* revenue is not a whole number.
C5_Witness ==
    /\ pc = "done"
    /\ params.months >= 2
    /\ params.loan_term >= 2
    /\ RevenueSum(data)[1] > 0
    /\ \E k \in DOMAIN cashflow_data : cashflow_data[k][2] # 1

\* C6: in the metrics of every month and in every table row, total expenditure is
\* cost + provision + variable cost + fixed overhead, net cashflow is revenue minus
\* total expenditure, net contribution is revenue minus cost, provision and
\* variable cost, and so net cashflow is net contribution minus fixed overhead.
C6_MonthlyIdentities ==
    /\ metrics # <<>> =>
          LET m == metrics[1]
              direct == RAdd(RAdd(m.cost, m.provision), m.variable_cost)
          IN  /\ m.total_expenditure = RAdd(direct, R(params.fixed_costs))
              /\ m.net_cashflow = RSub(m.revenue, m.total_expenditure)
              /\ m.net_contribution = RSub(m.revenue, direct)
              /\ m.net_cashflow = RSub(m.net_contribution, R(params.fixed_costs))
    /\ \A k \in DOMAIN data :
          LET row == data[k]
              direct == RAdd(RAdd(row.cost, row.provision), row.variable_costs)
          IN  /\ row.fixed_costs = R(params.fixed_costs)
              /\ row.net_cashflow = RSub(row.revenue, RAdd(direct, row.fixed_costs))
              /\ row.net_contribution = RSub(row.revenue, direct)
              /\ row.net_cashflow = RSub(row.net_contribution, row.fixed_costs)

\* A month with loans, a fractional variable cost and a fixed overhead.
C6_Witness ==
    /\ metrics # <<>>
    /\ params.fixed_costs > 0
    /\ metrics[1].loans_this_month > 0
    /\ metrics[1].variable_cost[2] # 1
    /\ metrics[1].net_cashflow # metrics[1].net_contribution

\* n is the floor of volume / size: the largest integer n with n * size <= volume.
IsFloorOf(n, volume, size) ==
    /\ RLe(RMul(R(n), size), volume)
    /\ RLt(volume, RMul(R(n + 1), size))

\* n is volume / size with the fraction discarded.
IsTruncationOf(n, volume, size) ==
    IF volume[1] >= 0
    THEN IsFloorOf(n, volume, size)
    ELSE /\ RLe(volume, RMul(R(n), size))
         /\ RLt(RMul(R(n - 1), size), volume)

C8_GrowthIsCompoundRate ==
    (pc = "done" /\ avg_growth # <<>> /\ params.initial_lending > 0) =>
        LET g == avg_growth[1]
        IN  /\ params.months = 1 => g.tag = "const"
            /\ (params.months > 1 /\ g.tag = "root") =>
                  /\ RPow(g.base, params.months - 1) = RPow(g.base, g.root)
                  /\ RPow(RAdd(R(1), params.loan_growth_rate), g.root) = g.base

\* C10: every index computed by the allocation loop is at most
\* months + loan_term - 2, the bounds guard has skipped nothing, and the last
\* entry of both amortized series is 0 from their creation to the end of the run.
C10_LastEntryNeverWritten ==
    pc \in {"month", "alloc", "done"} =>
        /\ repayment_month \in 0..(params.months + params.loan_term - 2)
        /\ skipped = 0
        /\ Len(cashflow_data) = params.months + params.loan_term
        /\ Len(net_cashflow_data) = params.months + params.loan_term
        /\ cashflow_data[Len(cashflow_data)] = R(0)
        /\ net_cashflow_data[Len(net_cashflow_data)] = R(0)

\* A finished run whose last allocation went to the highest index the loop can
\* reach, leaving the entry before the last non-zero in both series.
C10_Witness ==
    /\ pc = "done"
    /\ params.loan_term >= 2
    /\ params.months >= 2
    /\ repayment_month = params.months + params.loan_term - 2
    /\ cashflow_data[Len(cashflow_data) - 1] # R(0)
    /\ net_cashflow_data[Len(net_cashflow_data) - 1] # R(0)

====
